---- MODULE Spec2Model ----
(***************************************************************************)
(* Model of src/src/components/StudentFinanceManager.tsx: the component's  *)
(* React state (the expense list and the three form fields), the field     *)
(* setters wired to the inputs, the addExpense click handler, and the      *)
(* values derived on every render (totalSpent, isWithinBudget, overage).   *)
(*                                                                         *)
(* JavaScript numbers are modelled as exact rationals extended with        *)
(* Infinity and NaN.  On the amounts enumerated here (integers far below  *)
(* 2^53, one half) binary64 arithmetic is exact, so the model and the      *)
(* program agree on them; rounding of binary64 is outside the model.       *)
(* One reading of the clock serves Date.now() and new Date() of a call.    *)
(* Texts that parseFloat scans are sequences of one-character strings.     *)
(***************************************************************************)
EXTENDS Integers, Sequences, FiniteSets, TLC

\* Bounds of the model.
MaxEntries == 2    \* successful appends explored
MaxClock == 1      \* clock readings 0..MaxClock (milliseconds since the session began)

\* ------------------------------------------------------------------------
\* JavaScript Number values
\* ------------------------------------------------------------------------
RECURSIVE Gcd(_, _)
Gcd(a, b) == IF b = 0 THEN a ELSE Gcd(b, a % b)

Abs(n) == IF n < 0 THEN -n ELSE n

\* n/d in lowest terms, d > 0
Fin(n, d) ==
    LET g == Gcd(Abs(n), d)
    IN  [k |-> "fin", n |-> n \div g, d |-> d \div g]

Inf(s) == [k |-> "inf", n |-> s, d |-> 1]

NaN == [k |-> "nan", n |-> 0, d |-> 1]

Zero == Fin(0, 1)

isNaN(x) == x.k = "nan"

\* x <= y on Numbers: false when either side is NaN
Leq(x, y) ==
    CASE x.k = "nan" \/ y.k = "nan" -> FALSE
      [] x.k = "inf" -> x.n < 0 \/ (y.k = "inf" /\ y.n > 0)
      [] y.k = "inf" -> y.n > 0
      [] OTHER -> x.n * y.d <= y.n * x.d

\* x + y on Numbers
Add(x, y) ==
    CASE x.k = "nan" \/ y.k = "nan" -> NaN
      [] x.k = "inf" /\ y.k = "inf" -> IF x.n = y.n THEN x ELSE NaN
      [] x.k = "inf" -> x
      [] y.k = "inf" -> y
      [] OTHER -> Fin(x.n * y.d + y.n * x.d, x.d * y.d)

Neg(x) == IF x.k = "nan" THEN x ELSE [x EXCEPT !.n = -x.n]

\* x - y on Numbers
Sub(x, y) == Add(x, Neg(y))

\* ------------------------------------------------------------------------
\* parseFloat (ECMAScript: trim leading white space, read the longest prefix
\* that is a StrDecimalLiteral, NaN when there is none)
\* ------------------------------------------------------------------------
DigitChars == {"0", "1", "2", "3", "4", "5", "6", "7", "8", "9"}

WhiteSpaceChars == {" "}

DigitVal(c) ==
    CASE c = "0" -> 0 [] c = "1" -> 1 [] c = "2" -> 2 [] c = "3" -> 3
      [] c = "4" -> 4 [] c = "5" -> 5 [] c = "6" -> 6 [] c = "7" -> 7
      [] c = "8" -> 8 [] c = "9" -> 9

Max(S) == CHOOSE m \in S : \A x \in S : x <= m

\* length of the longest prefix of s whose characters are all in C
PrefixLen(s, C) == Max({i \in 0..Len(s) : \A j \in 1..i : s[j] \in C})

Drop(s, n) == SubSeq(s, n + 1, Len(s))

StartsWith(s, p) == Len(s) >= Len(p) /\ SubSeq(s, 1, Len(p)) = p

RECURSIVE DigitsValue(_)
DigitsValue(ds) ==
    IF ds = <<>> THEN 0
    ELSE 10 * DigitsValue(SubSeq(ds, 1, Len(ds) - 1)) + DigitVal(ds[Len(ds)])

RECURSIVE NumDigits(_)
NumDigits(m) == IF m < 10 THEN 1 ELSE 1 + NumDigits(m \div 10)

RECURSIVE Pow10(_)
Pow10(p) == IF p = 0 THEN 1 ELSE 10 * Pow10(p - 1)

\* the Number value of sign * m * 10^p: Infinity from 10^309 up (beyond
\* the largest binary64), 0 below 10^-324 (beneath the smallest subnormal)
MakeNumber(sign, m, p) ==
    CASE m = 0 -> Zero
      [] m # 0 /\ NumDigits(m) + p > 309 -> Inf(sign)
      [] m # 0 /\ NumDigits(m) + p < -324 -> Zero
      [] OTHER -> IF p >= 0 THEN Fin(sign * m * Pow10(p), 1)
                  ELSE Fin(sign * m, Pow10(-p))

InfinityText == <<"I", "n", "f", "i", "n", "i", "t", "y">>

\* the exponent part at the head of s: e or E, an optional sign, digits;
\* 0 when s does not begin with a complete exponent part
ExponentOf(s) ==
    IF s # <<>> /\ s[1] \in {"e", "E"}
    THEN LET r == Drop(s, 1)
             hasSign == r # <<>> /\ r[1] \in {"+", "-"}
             esign == IF hasSign /\ r[1] = "-" THEN -1 ELSE 1
             ds == IF hasSign THEN Drop(r, 1) ELSE r
             n == PrefixLen(ds, DigitChars)
         IN  IF n = 0 THEN 0 ELSE esign * DigitsValue(SubSeq(ds, 1, n))
    ELSE 0

\* the unsigned decimal literal at the head of s
ParseDecimal(sign, s) ==
    LET ni == PrefixLen(s, DigitChars)
        afterInt == Drop(s, ni)
        hasDot == afterInt # <<>> /\ afterInt[1] = "."
        fracSrc == IF hasDot THEN Drop(afterInt, 1) ELSE <<>>
        nf == PrefixLen(fracSrc, DigitChars)
        rest == IF hasDot THEN Drop(fracSrc, nf) ELSE afterInt
        mant == DigitsValue(SubSeq(s, 1, ni) \o SubSeq(fracSrc, 1, nf))
    IN  IF ni = 0 /\ nf = 0 THEN NaN
        ELSE MakeNumber(sign, mant, ExponentOf(rest) - nf)

parseFloat(text) ==
    LET trimmed == Drop(text, PrefixLen(text, WhiteSpaceChars))
        hasSign == trimmed # <<>> /\ trimmed[1] \in {"+", "-"}
        sign == IF hasSign /\ trimmed[1] = "-" THEN -1 ELSE 1
        body == IF hasSign THEN Drop(trimmed, 1) ELSE trimmed
    IN  IF StartsWith(body, InfinityText) THEN Inf(sign)
        ELSE ParseDecimal(sign, body)

\* ------------------------------------------------------------------------
\* The component
\* ------------------------------------------------------------------------
categories ==
    {"Food", "Transportation", "Entertainment", "Education", "Healthcare",
     "Shopping", "Other"}

monthlyBudget == 5000

\* Texts the fields are set to.  The setters store whatever text they are
\* handed; addExpense is the only place that looks at it.
NameTexts == {"", "Lunch"}

AmountTexts ==
    { <<>>,
      <<"2", "0", "0">>,
      <<"4", "9", "0", "0">>,
      <<"5", "0", "0", "0">>,
      <<"0">>,
      <<"-", "0", ".", "5">>,
      <<"a", "b", "c">>,
      <<"2", "0", "0", "a", "b", "c">>,
      InfinityText,
      <<"1", "e", "9", "9", "9">> }

CategoryTexts == {"", "Food", "Rent"}

VARIABLES
    expenses,          \* useState<Expense[]>([])
    expenseName,       \* useState("")
    expenseAmount,     \* useState(""), a text
    expenseCategory,   \* useState("")
    toast,             \* title of the last toast shown, "" before the first
    now                \* the reading of the clock (Date.now())

vars == <<expenses, expenseName, expenseAmount, expenseCategory, toast, now>>

Init ==
    /\ expenses = <<>>
    /\ expenseName = ""
    /\ expenseAmount = <<>>
    /\ expenseCategory = ""
    /\ toast = ""
    /\ now = 0

\* expenses.reduce((sum, expense) => sum + expense.amount, 0)
RECURSIVE reduceSum(_, _)
reduceSum(list, sum) ==
    IF list = <<>> THEN sum
    ELSE reduceSum(Tail(list), Add(sum, Head(list).amount))

\* the sum without its last term
totalSpent_DropsLast ==
    IF expenses = <<>> THEN Zero
    ELSE reduceSum(SubSeq(expenses, 1, Len(expenses) - 1), Zero)

totalSpent == reduceSum(expenses, Zero)

\* totalSpent < monthlyBudget
isWithinBudget_Strict ==
    /\ Leq(totalSpent, Fin(monthlyBudget, 1))
    /\ totalSpent # Fin(monthlyBudget, 1)

isWithinBudget == Leq(totalSpent, Fin(monthlyBudget, 1))

\* the amount shown in "You are ... over budget"
overBudgetBy == Sub(totalSpent, Fin(monthlyBudget, 1))

\* validate without the amount <= 0 test
validate_NoSignTest(name, amountText, category) ==
    IF name = "" \/ amountText = <<>> \/ category = ""
    THEN "Missing Information"
    ELSE IF isNaN(parseFloat(amountText)) THEN "Invalid Amount"
         ELSE "Expense Added"

\* validate with the amount tested before the empty fields
validate_AmountFirst(name, amountText, category) ==
    LET amount == parseFloat(amountText)
    IN  IF isNaN(amount) \/ Leq(amount, Zero) THEN "Invalid Amount"
        ELSE IF name = "" \/ amountText = <<>> \/ category = ""
             THEN "Missing Information"
             ELSE "Expense Added"

\* the validation of addExpense: the title of the toast it ends with
validate(name, amountText, category) ==
    IF name = "" \/ amountText = <<>> \/ category = ""
    THEN "Missing Information"
    ELSE LET amount == parseFloat(amountText)
         IN  IF isNaN(amount) \/ Leq(amount, Zero)
             THEN "Invalid Amount"
             ELSE "Expense Added"

newExpense(name, amountText, category, clock) ==
    [id |-> ToString(clock),
     name |-> name,
     amount |-> parseFloat(amountText),
     category |-> category,
     date |-> clock]

\* [newExpense, ...expenses]
appendExpense_Prepend(list, e) == <<e>> \o list

\* [newExpense]
appendExpense_Replace(list, e) == <<e>>

\* [...expenses, newExpense]
appendExpense(list, e) == Append(list, e)

setExpenseName ==
    /\ \E v \in NameTexts : expenseName' = v
    /\ UNCHANGED <<expenses, expenseAmount, expenseCategory, toast, now>>

setExpenseAmount ==
    /\ \E v \in AmountTexts : expenseAmount' = v
    /\ UNCHANGED <<expenses, expenseName, expenseCategory, toast, now>>

setExpenseCategory ==
    /\ \E v \in CategoryTexts : expenseCategory' = v
    /\ UNCHANGED <<expenses, expenseName, expenseAmount, toast, now>>

addExpenseRejected ==
    /\ validate(expenseName, expenseAmount, expenseCategory) # "Expense Added"
    /\ toast' = validate(expenseName, expenseAmount, expenseCategory)
    /\ UNCHANGED <<expenses, expenseName, expenseAmount, expenseCategory, now>>

\* the accepted branch without setExpenseCategory("")
addExpenseAccepted_KeepsCategory ==
    /\ validate(expenseName, expenseAmount, expenseCategory) = "Expense Added"
    /\ Len(expenses) < MaxEntries
    /\ expenses' = appendExpense(expenses,
                     newExpense(expenseName, expenseAmount, expenseCategory, now))
    /\ expenseName' = ""
    /\ expenseAmount' = <<>>
    /\ toast' = "Expense Added"
    /\ UNCHANGED <<expenseCategory, now>>

addExpenseAccepted ==
    /\ validate(expenseName, expenseAmount, expenseCategory) = "Expense Added"
    /\ Len(expenses) < MaxEntries
    /\ expenses' = appendExpense(expenses,
                     newExpense(expenseName, expenseAmount, expenseCategory, now))
    /\ expenseName' = ""
    /\ expenseAmount' = <<>>
    /\ expenseCategory' = ""
    /\ toast' = "Expense Added"
    /\ UNCHANGED now

addExpense == addExpenseRejected \/ addExpenseAccepted

\* time passes between two events
Tick ==
    /\ now < MaxClock
    /\ now' = now + 1
    /\ UNCHANGED <<expenses, expenseName, expenseAmount, expenseCategory, toast>>

Next ==
    \/ setExpenseName
    \/ setExpenseAmount
    \/ setExpenseCategory
    \/ addExpense
    \/ Tick

Spec == Init /\ [][Next]_vars

\* ------------------------------------------------------------------------
\* Properties
\* ------------------------------------------------------------------------
Budget == Fin(monthlyBudget, 1)

\* x > 0 for a Number x
Positive(x) == ~isNaN(x) /\ ~Leq(x, Zero)

AnyFieldEmpty == expenseName = "" \/ expenseAmount = <<>> \/ expenseCategory = ""

\* a call of addExpense that changes the state.  No other handler writes
\* expenses or toast; a call that changes neither is a stuttering step.
addExpenseCall == (expenses' # expenses \/ toast' # toast) /\ addExpense

\* the sum of the amounts, taken over the set of positions in any order
RECURSIVE SumOver(_)
SumOver(I) ==
    IF I = {} THEN Zero
    ELSE LET i == CHOOSE j \in I : TRUE
         IN  Add(expenses[i].amount, SumOver(I \ {i}))

\* C1: a call of addExpense with a non-empty name, a non-empty category and
\* an amount text that parses to a number > 0 succeeds, and the new list is
\* the old list with one element appended whose name, category and amount
\* are the supplied name, category and parsed amount.
C1_ValidInputAppendsOne ==
    [][(/\ addExpenseCall
        /\ expenseName # ""
        /\ expenseCategory # ""
        /\ Positive(parseFloat(expenseAmount)))
       => (/\ toast' = "Expense Added"
           /\ Len(expenses') = Len(expenses) + 1
           /\ SubSeq(expenses', 1, Len(expenses)) = expenses
           /\ expenses'[Len(expenses')].name = expenseName
           /\ expenses'[Len(expenses')].category = expenseCategory
           /\ expenses'[Len(expenses')].amount = parseFloat(expenseAmount))]_vars

C1_Witness ==
    /\ Len(expenses) = 2
    /\ expenses[1].amount = Fin(200, 1)
    /\ expenses[2].name = "Lunch"
    /\ expenses[2].category = "Food"
    /\ expenses[2].amount = Fin(5000, 1)
    /\ toast = "Expense Added"

\* C2: a call of addExpense with an empty name, an empty category, an empty
\* amount, an amount text that does not parse to a number, or an amount <= 0
\* fails and leaves the list of entries as it was.
C2_InvalidInputLeavesEntries ==
    [][(/\ addExpenseCall
        /\ \/ AnyFieldEmpty
           \/ isNaN(parseFloat(expenseAmount))
           \/ Leq(parseFloat(expenseAmount), Zero))
       => (/\ expenses' = expenses
           /\ toast' \in {"Missing Information", "Invalid Amount"})]_vars

C2_Witness ==
    /\ toast = "Invalid Amount"
    /\ Len(expenses) = 1
    /\ expenseName = "Lunch"
    /\ expenseCategory = "Food"
    /\ expenseAmount = <<"-", "0", ".", "5">>

\* C3: addExpense reports Missing Information whenever a field is empty,
\* whatever the amount; Invalid Amount only when the three fields are
\* non-empty and the amount is unparseable or <= 0; Expense Added otherwise.
C3_ValidationOrder ==
    [][addExpenseCall
       => toast' = IF AnyFieldEmpty THEN "Missing Information"
                   ELSE IF ~Positive(parseFloat(expenseAmount))
                        THEN "Invalid Amount"
                        ELSE "Expense Added"]_vars

C3_Witness ==
    /\ toast = "Missing Information"
    /\ expenseName = ""
    /\ expenseCategory = "Food"
    /\ expenseAmount = <<"a", "b", "c">>

\* C4: totalSpent is the sum of the amounts of the entries of the ledger,
\* and 0 when the ledger is empty.
C4_TotalIsSum ==
    /\ totalSpent = SumOver(1..Len(expenses))
    /\ expenses = <<>> => totalSpent = Zero

C4_Witness ==
    /\ Len(expenses) = 2
    /\ expenses[1].amount = Fin(5000, 1)
    /\ expenses[2].amount = Fin(4900, 1)
    /\ totalSpent = Fin(9900, 1)

\* C5: withinBudget holds exactly when the total does not exceed 5000 (a
\* total of exactly 5000 is within budget); when it does not hold the
\* overage is totalSpent - 5000 and is > 0; 200 then 4900 gives overage 100.
C5_BudgetStatus ==
    LET t == SumOver(1..Len(expenses))
        exceeds == \/ t.k = "inf" /\ t.n > 0
                   \/ t.k = "fin" /\ t.n > 5000 * t.d
    IN  /\ isWithinBudget <=> ~exceeds
        /\ t = Fin(5000, 1) => isWithinBudget
        /\ ~isWithinBudget => /\ overBudgetBy = Sub(t, Fin(5000, 1))
                              /\ Positive(overBudgetBy)
        /\ (/\ Len(expenses) = 2
            /\ expenses[1].amount = Fin(200, 1)
            /\ expenses[2].amount = Fin(4900, 1))
           => ~isWithinBudget /\ overBudgetBy = Fin(100, 1)

C5_Witness ==
    /\ Len(expenses) = 2
    /\ expenses[1].amount = Fin(200, 1)
    /\ expenses[2].amount = Fin(4900, 1)
    /\ ~isWithinBudget
    /\ overBudgetBy = Fin(100, 1)

\* C6: no two entries of the ledger have the same id.
C6_UniqueIds ==
    \A i, j \in 1..Len(expenses) : i # j => expenses[i].id # expenses[j].id

\* C7: every entry's amount is a finite number > 0.
C7_AmountsFinitePositive ==
    \A i \in 1..Len(expenses) :
        expenses[i].amount.k = "fin" /\ expenses[i].amount.n > 0

C9_OverBudgetPermanent ==
    [][expenses' # expenses
       => /\ Leq(totalSpent, reduceSum(expenses', Zero))
          /\ ~isWithinBudget => ~Leq(reduceSum(expenses', Zero), Budget)]_vars

C9_Witness ==
    /\ Len(expenses) = 2
    /\ expenses[1].amount = Fin(200, 1)
    /\ expenses[2].amount = Fin(4900, 1)
    /\ ~isWithinBudget
    /\ toast = "Invalid Amount"
    /\ expenseName = "Lunch"
    /\ expenseAmount = <<"0">>
    /\ expenseCategory = "Food"

\* C10: a successful addExpense empties the three fields, so that addExpense
\* called again at once reports Missing Information; a failed addExpense
\* leaves the three fields as they were.
C10_FieldsAfterAddExpense ==
    [][addExpenseCall
       => IF Len(expenses') = Len(expenses) + 1
          THEN /\ expenseName' = ""
               /\ expenseAmount' = <<>>
               /\ expenseCategory' = ""
               /\ validate(expenseName', expenseAmount', expenseCategory')
                    = "Missing Information"
          ELSE /\ UNCHANGED <<expenseName, expenseAmount, expenseCategory>>
               /\ expenses' = expenses]_vars

C10_Witness ==
    /\ Len(expenses) = 1
    /\ toast = "Missing Information"
    /\ expenseName = ""
    /\ expenseAmount = <<>>
    /\ expenseCategory = ""

====
